---- MODULE Spec2Model ----
(***************************************************************************)
(* Streaming chat decoders of the Ollama chat extension.                   *)
(*                                                                         *)
(* Two implementations of the same decoder are modelled:                   *)
(*   "provider" : OllamaLanguageModelProvider.chat  (unnamed/part_007)     *)
(*   "service"  : OllamaService.chat                (unnamed/part_008)     *)
(* Spec is the decoder on an open stream; ChatSpec is the whole chat()     *)
(* call, also of VSCodeLanguageModelProvider ("vscode-lm"); UiSpec is the  *)
(* webview with OllamaChatProvider (unnamed/part_004); UnifiedSpec is      *)
(* UnifiedLanguageModelService (unnamed/part_005) with the startup check.  *)
(*                                                                         *)
(* Text is a sequence of symbols.  A symbol is either a single character   *)
(* ("NL", "SP", "a", "b"), a single byte of a two-byte UTF-8 character     *)
(* ("C3" "A9" encode "e'"), or a run of ASCII characters that the decoder  *)
(* only ever treats as a unit:                                             *)
(*   "DATA"  data:<space>                       (SSE framing prefix)       *)
(*   "DONE"  [DONE]                                                        *)
(*   "OD"    {"choices":[{"delta":{"content":"                             *)
(*   "OM"    {"choices":[{"message":{"content":"                           *)
(*   "CL"    "}}]}                                                         *)
(*   "CLS"   "},"finish_reason":"stop"}]}                                  *)
(*   "NC"    {"choices":[]}                                                *)
(*   "BSN"   \n, the two characters of an escaped newline in a JSON string *)
(*   "MID"   "},"message":{"content":"   (between the two contents of a     *)
(*           choice that carries delta and message)                        *)
(* JSON.parse accepts "NC" and "OD"/"OM", content characters, "CL"/"CLS".  *)
(* The decoder concatenates chunks before it looks for newlines, so a cut  *)
(* inside an ASCII run behaves as a cut next to it; only a cut inside a    *)
(* multi-byte character is seen by chunk.toString().                       *)
(***************************************************************************)
EXTENDS Integers, Sequences, FiniteSets, TLC

VARIABLES
    impl,         \* which chat() is running: "provider" or "service"
    records,      \* the record kinds the response body is made of
    stream,       \* the response body, as bytes
    pos,          \* number of bytes the transport has delivered so far
    transport,    \* "open", "ended", "errored" or "stalled"
    cancelled,    \* cancellationToken.isCancellationRequested
    timer,        \* the setTimeout of the service: "none", "armed", "cleared", "fired"
    buffer,       \* let buffer
    fullResponse, \* let fullResponse
    sink,         \* the fragments passed to onStream / onChunk, in call order
    promise,      \* state of the promise returned by chat()
    value,        \* what the promise settled with
    hist,         \* observations of the run, read by the properties only
    shadow,       \* the same decoder run on the body without its skipped records
    phase,        \* where the chat() call is: "posting", "streaming", "returned", ...
    model,        \* the model name chat() was called with
    onChunk,      \* whether a sink was passed (the service streams only then)
    caught,       \* the error the catch block of chat() received, if any
    body,         \* response.data of a non-streaming call
    isStreaming,  \* webview: let isStreaming
    inbox,        \* messages posted to the webview and not yet received by it
    requests,     \* the 'sendMessage' requests the webview has posted, with their progress
    currentProvider, \* UnifiedLanguageModelService.currentProvider
    lastSet,      \* the argument of the last setProvider call
    lastCall,     \* the last call the unified service passed on, and to which provider
    check,        \* progress of checkProviderAvailability
    messages,     \* VSCodeLanguageModelProvider.chat: the conversation it was called with
    options,      \* ... its options argument
    idx,          \* ... the i of its conversion loop
    vscodeMessages, \* ... const vscodeMessages
    sent,         \* ... the messages handed to selectedModel.sendRequest, once called
    switch,       \* progress of the 'ollamaChat.switchProvider' command
    flights,      \* the chat calls made on the unified service, with their fragments
    chatHistory,  \* webview: let chatHistory
    currentStreamingMessage  \* webview: whether currentStreamingMessage is set

vars == <<impl, records, stream, pos, transport, cancelled, timer, buffer,
          fullResponse, sink, promise, value, hist, shadow>>

\* The call around the decoder.
chatVars == <<phase, model, onChunk, caught, body>>

\* The webview and the handler of its 'sendMessage'.
uiVars == <<isStreaming, inbox, requests, chatHistory, currentStreamingMessage>>

\* The unified service and the startup check.
unifiedVars == <<currentProvider, lastSet, lastCall, check>>

\* The message conversion of VSCodeLanguageModelProvider.chat.
promptVars == <<messages, options, idx, vscodeMessages, sent>>

\* The switch command and the chat calls in flight on the unified service.
sessionVars == <<switch, flights>>

\* What the decoder's handlers never touch.
outside == <<chatVars, uiVars, unifiedVars, promptVars, sessionVars>>

\* Most 'sendMessage' requests one run of the webview posts.
MaxSends == 2

\* Longest response body, in records.
MaxRecords == 3

----------------------------------------------------------------------------
\* Sequences

RECURSIVE Flatten(_)
Flatten(ss) == IF ss = <<>> THEN <<>> ELSE Head(ss) \o Flatten(Tail(ss))

Drop(s, n) == SubSeq(s, n + 1, Len(s))

----------------------------------------------------------------------------
\* The response bodies

RecordKinds == {"delta", "message", "stopc", "stop", "done", "bad", "nochoice", "empty"}

\* The text of one record, without its newline.
RecordText(k) ==
    CASE k = "delta"    -> <<"DATA", "OD", "C3", "A9", "CL">>
      [] k = "message"  -> <<"SP", "OM", "a", "CL">>
      [] k = "stopc"    -> <<"OD", "b", "CLS">>
      [] k = "stop"     -> <<"OD", "CLS">>
      [] k = "done"     -> <<"DATA", "DONE">>
      [] k = "bad"      -> <<"OD", "a">>
      [] k = "nochoice" -> <<"NC">>
      [] k = "empty"    -> <<"OD", "CL">>
      [] k = "escaped"  -> <<"DATA", "OD", "a", "BSN", "b", "CL">>
      [] k = "plain"    -> <<"OD", "b", "CL">>
      [] k = "both"     -> <<"DATA", "OD", "a", "MID", "b", "CL">>

RECURSIVE Body(_)
Body(rs) == IF rs = <<>> THEN <<>>
            ELSE RecordText(Head(rs)) \o <<"NL">> \o Body(Tail(rs))

RecordSeqs == UNION {[1..n -> RecordKinds] : n \in 1..MaxRecords}

----------------------------------------------------------------------------
\* String operations of the decoder

\* chunk.toString(): UTF-8 decoding of one Buffer on its own.  A lead byte
\* without its continuation byte, and a continuation byte without its lead
\* byte, each decode to U+FFFD.
RECURSIVE toString(_)
toString(chunk) ==
    IF chunk = <<>> THEN <<>>
    ELSE IF Head(chunk) = "C3"
         THEN IF Len(chunk) >= 2 /\ chunk[2] = "A9"
              THEN <<"e'">> \o toString(Drop(chunk, 2))
              ELSE <<"FFFD">> \o toString(Tail(chunk))
    ELSE IF Head(chunk) = "A9"
         THEN <<"FFFD">> \o toString(Tail(chunk))
    ELSE <<Head(chunk)>> \o toString(Tail(chunk))

\* buffer.split('\n'): always at least one element, the last one being the
\* text after the last newline.
RECURSIVE split(_)
split(s) ==
    IF \A i \in 1..Len(s) : s[i] # "NL" THEN <<s>>
    ELSE LET i == CHOOSE j \in 1..Len(s) :
                      s[j] = "NL" /\ \A h \in 1..(j - 1) : s[h] # "NL"
         IN  <<SubSeq(s, 1, i - 1)>> \o split(Drop(s, i))

RECURSIVE trimStart(_)
trimStart(s) == IF s # <<>> /\ Head(s) = "SP" THEN trimStart(Tail(s)) ELSE s

RECURSIVE trimEnd(_)
trimEnd(s) == IF s # <<>> /\ s[Len(s)] = "SP"
              THEN trimEnd(SubSeq(s, 1, Len(s) - 1)) ELSE s

trim(s) == trimEnd(trimStart(s))

startsWithData(s) == s # <<>> /\ Head(s) = "DATA"

ContentChars == {"a", "b", "e'", "FFFD"}

\* JSON.parse(jsonStr), reduced to what the decoder reads from the result.
\* ok = FALSE stands for the SyntaxError.
NoParse == [ok |-> FALSE, choice |-> FALSE, delta |-> <<>>, message |-> <<>>,
            finish_reason |-> "none"]

JSONparse(s) ==
    IF s = <<"NC">> THEN [NoParse EXCEPT !.ok = TRUE]
    ELSE IF /\ Len(s) >= 3
            /\ s[1] = "OD"
            /\ s[Len(s)] \in {"CL", "CLS"}
            /\ \E m \in 2..(Len(s) - 1) :
                  /\ s[m] = "MID"
                  /\ \A i \in (2..(Len(s) - 1)) \ {m} : s[i] \in ContentChars
         THEN LET m == CHOOSE i \in 2..(Len(s) - 1) : s[i] = "MID"
              IN  [ok |-> TRUE, choice |-> TRUE,
                   delta   |-> SubSeq(s, 2, m - 1),
                   message |-> SubSeq(s, m + 1, Len(s) - 1),
                   finish_reason |-> IF s[Len(s)] = "CLS" THEN "stop" ELSE "none"]
    ELSE IF /\ Len(s) >= 2
            /\ s[1] \in {"OD", "OM"}
            /\ s[Len(s)] \in {"CL", "CLS"}
            /\ \A i \in 2..(Len(s) - 1) : s[i] \in ContentChars
         THEN [ok |-> TRUE, choice |-> TRUE,
               delta   |-> IF s[1] = "OD" THEN SubSeq(s, 2, Len(s) - 1) ELSE <<>>,
               message |-> IF s[1] = "OM" THEN SubSeq(s, 2, Len(s) - 1) ELSE <<>>,
               finish_reason |-> IF s[Len(s)] = "CLS" THEN "stop" ELSE "none"]
    ELSE NoParse

----------------------------------------------------------------------------
\* The request: the locals of the promise executor and the promise itself,
\* as one record the handlers transform.

Undefined    == [kind |-> "undefined", text |-> <<>>]
Text(t)      == [kind |-> "text", text |-> t]
Failure(why) == [kind |-> why, text |-> <<>>]

None == <<"none">>

NoHist == [complete      |-> FALSE,   \* a [DONE] or finish_reason 'stop' record was reached
           doneDecoded   |-> FALSE,   \* a [DONE] record was reached
           stopContent   |-> None,    \* content of the first 'stop' record reached
           stopSinkLen   |-> 0,       \* Len(sink) right after that record's emission
           settledBy     |-> "none",  \* the call that settled the promise
           settleSinkLen |-> 0,       \* Len(sink) when the promise settled
           lastEvent     |-> "none"]  \* the handler that ran last

\* new Promise((resolve, reject) => { let buffer = ''; let fullResponse = ''; ...
NewRequest == [buffer |-> <<>>, fullResponse |-> <<>>, sink |-> <<>>,
               promise |-> "pending", value |-> Undefined, hist |-> NoHist]

\* resolve(v): settles a pending promise, does nothing to a settled one.
resolve(st, v, by) ==
    IF st.promise = "pending"
    THEN [st EXCEPT !.promise = "resolved", !.value = v,
                    !.hist.settledBy = by, !.hist.settleSinkLen = Len(st.sink)]
    ELSE st

\* A reject that overwrites the outcome of a settled promise.
rejectOverwrites(st, e, by) ==
    [st EXCEPT !.promise = "rejected", !.value = e,
               !.hist.settledBy = by, !.hist.settleSinkLen = Len(st.sink)]

\* reject(e): settles a pending promise, does nothing to a settled one.
reject(st, e, by) ==
    IF st.promise = "pending"
    THEN [st EXCEPT !.promise = "rejected", !.value = e,
                    !.hist.settledBy = by, !.hist.settleSinkLen = Len(st.sink)]
    ELSE st

\* The argument of resolve: resolve() in the provider, resolve(fullResponse)
\* in the service.
Resolution(i, st) == IF i = "service" THEN Text(st.fullResponse) ELSE Undefined

\* fullResponse += content; onStream(content)
emit(st, content) ==
    [st EXCEPT !.fullResponse = @ \o content, !.sink = Append(@, content)]

\* An extraction that looks at message.content first.
contentOfMessageFirst(data) ==
    IF data.message # <<>> THEN data.message
    ELSE IF data.delta # <<>> THEN data.delta
    ELSE <<>>

\* choice.delta.content if truthy, else choice.message.content if truthy, else ''
contentOf(data) ==
    IF data.delta # <<>> THEN data.delta
    ELSE IF data.message # <<>> THEN data.message
    ELSE <<>>

\* Observation: a 'stop' record was reached, its content already emitted.
StopReached(st, content) ==
    IF st.hist.stopContent = None
    THEN [st EXCEPT !.hist.complete = TRUE,
                    !.hist.stopContent = content,
                    !.hist.stopSinkLen = Len(st.sink)]
    ELSE [st EXCEPT !.hist.complete = TRUE]

\* A catch block that fails the request instead of logging.
parseErrorRejects(st) == reject(st, Failure("parse"), "parse")

\* catch (parseError) { console.warn(...) }
parseError(st) == st

\* A choice handler that completes the request before it emits the content.
choiceResolvesFirst(i, st, data) ==
    LET content == contentOf(data)
        st1     == IF data.finish_reason = "stop"
                   THEN resolve(st, Resolution(i, st), "stop") ELSE st
        st2     == IF content # <<>> THEN emit(st1, content) ELSE st1
    IN  IF data.finish_reason = "stop" THEN StopReached(st2, content) ELSE st2

\* The body of "if (data.choices && data.choices[0])": emit the content, then
\* resolve if finish_reason is 'stop'.
choice(i, st, data) ==
    LET content == contentOf(data)
        st1     == IF content # <<>> THEN emit(st, content) ELSE st
        st2     == StopReached(st1, content)
    IN  IF data.finish_reason = "stop"
        THEN resolve(st2, Resolution(i, st2), "stop")
        ELSE st1

\* for (const line of lines) { ... }, with its two early returns.
RECURSIVE processLines(_, _, _)
processLines(i, st, lines) ==
    IF lines = <<>> THEN st
    ELSE
    LET trimmedLine == trim(Head(lines))
        jsonStr == IF startsWithData(trimmedLine)
                   THEN trim(Tail(trimmedLine)) ELSE trimmedLine
        data    == JSONparse(jsonStr)
    IN  IF trimmedLine = <<>> THEN processLines(i, st, Tail(lines))
        ELSE IF jsonStr = <<"DONE">>
             THEN resolve([st EXCEPT !.hist.complete = TRUE,
                                     !.hist.doneDecoded = TRUE],
                          Resolution(i, st), "done")
        ELSE IF ~data.ok THEN processLines(i, parseError(st), Tail(lines))
        ELSE IF ~data.choice THEN processLines(i, st, Tail(lines))
        ELSE IF data.finish_reason = "stop" THEN choice(i, st, data)
        ELSE processLines(i, choice(i, st, data), Tail(lines))

\* A handler that forgets the partial line instead of buffering it.
processChunkStrDropsPartial(i, st, chunkStr) ==
    LET lines == split(st.buffer \o chunkStr)
    IN  processLines(i, [st EXCEPT !.buffer = <<>>],
                     SubSeq(lines, 1, Len(lines) - 1))

\* response.data.on('data', ...) from "buffer += chunkStr" on.
processChunkStr(i, st, chunkStr) ==
    LET lines == split(st.buffer \o chunkStr)
    IN  processLines(i, [st EXCEPT !.buffer = lines[Len(lines)]],
                     SubSeq(lines, 1, Len(lines) - 1))

\* response.data.on('data', (chunk: Buffer) => { ... })
onData(i, c, st, chunk) ==
    LET st0 == [st EXCEPT !.hist.lastEvent = "data"]
    IN  IF i = "provider" /\ c
        THEN resolve(st0, Undefined, "cancel")
        ELSE processChunkStr(i, st0, toString(chunk))

\* response.data.on('end', ...): the service registers two such handlers,
\* both resolve(fullResponse).
\* An end handler that first treats what is left in the buffer as a line.
onEndFlushes(i, st) ==
    LET st0 == processLines(i, [st EXCEPT !.hist.lastEvent = "end", !.buffer = <<>>],
                            <<st.buffer>>)
    IN  resolve(st0, Resolution(i, st0), "end")

\* response.data.on('end', ...)
onEnd(i, st) ==
    LET st0 == [st EXCEPT !.hist.lastEvent = "end"]
    IN  resolve(st0, Resolution(i, st0), "end")

\* response.data.on('error', ...)
onError(i, st) ==
    LET st0 == [st EXCEPT !.hist.lastEvent = "error"]
    IN  IF i = "provider"
        THEN reject([st0 EXCEPT !.sink = Append(@, <<"StreamError">>)],
                    Failure("error"), "error")
        ELSE reject(st0, Failure("error"), "error")

\* A timer callback that leaves the request as it is.
onTimeoutIgnored(st) == [st EXCEPT !.hist.lastEvent = "timeout"]

\* setTimeout(() => { reject(new Error('Streaming response timeout')) }, 120000)
onTimeout(st) ==
    reject([st EXCEPT !.hist.lastEvent = "timeout"], Failure("timeout"), "timeout")

----------------------------------------------------------------------------
\* The decoder of src/src/ollamaService.ts ("legacy")

\* buffer.split('\\n'): the separator is the two characters backslash and n,
\* not the newline character.
RECURSIVE splitLegacy(_)
splitLegacy(s) ==
    IF \A i \in 1..Len(s) : s[i] # "BSN" THEN <<s>>
    ELSE LET i == CHOOSE j \in 1..Len(s) :
                      s[j] = "BSN" /\ \A h \in 1..(j - 1) : s[h] # "BSN"
         IN  <<SubSeq(s, 1, i - 1)>> \o splitLegacy(Drop(s, i))

\* String.prototype.trim() also removes line terminators.
RECURSIVE trimStartWhite(_)
trimStartWhite(s) ==
    IF s # <<>> /\ Head(s) \in {"SP", "NL"} THEN trimStartWhite(Tail(s)) ELSE s

RECURSIVE trimEndWhite(_)
trimEndWhite(s) ==
    IF s # <<>> /\ s[Len(s)] \in {"SP", "NL"}
    THEN trimEndWhite(SubSeq(s, 1, Len(s) - 1)) ELSE s

trimWhite(s) == trimEndWhite(trimStartWhite(s))

\* for (const line of lines) { ... } of the legacy decoder: only delta.content
\* is read, [DONE] returns, a parse error is ignored.
RECURSIVE processLinesLegacy(_, _)
processLinesLegacy(st, lines) ==
    IF lines = <<>> THEN st
    ELSE
    LET trimmedLine == trimWhite(Head(lines))
        jsonStr == IF startsWithData(trimmedLine)
                   THEN trimWhite(Tail(trimmedLine)) ELSE trimmedLine
        data    == JSONparse(jsonStr)
    IN  IF trimmedLine = <<>> THEN processLinesLegacy(st, Tail(lines))
        ELSE IF jsonStr = <<"DONE">>
             THEN resolve([st EXCEPT !.hist.complete = TRUE, !.hist.doneDecoded = TRUE],
                          Text(st.fullResponse), "done")
        ELSE IF data.ok /\ data.choice /\ data.delta # <<>>
             THEN processLinesLegacy(emit(st, data.delta), Tail(lines))
        ELSE processLinesLegacy(st, Tail(lines))

\* response.data.on('data', (chunk: Buffer) => { ... }) of the legacy decoder
onDataLegacy(st, chunk) ==
    LET lines == splitLegacy(st.buffer \o toString(chunk))
    IN  processLinesLegacy([st EXCEPT !.buffer = lines[Len(lines)],
                                      !.hist.lastEvent = "data"],
                           SubSeq(lines, 1, Len(lines) - 1))

----------------------------------------------------------------------------
\* The run with skipped records absent

\* Record kinds that are not valid JSON, or parse without a first choice, or
\* parse to a first choice with neither content nor finish_reason 'stop'.
Malformed == {"bad", "nochoice", "empty"}

\* Record kinds that do not parse to a first choice carrying content.
Contentless == {"bad", "nochoice", "empty", "stop"}

\* The bytes from+1..to of Body(rs) that belong to records not in drop.
RECURSIVE Kept(_, _, _, _)
Kept(rs, drop, from, to) ==
    IF rs = <<>> THEN <<>>
    ELSE LET line == RecordText(Head(rs)) \o <<"NL">>
             n    == Len(line)
             lo   == IF from < 0 THEN 1 ELSE from + 1
             hi   == IF to > n THEN n ELSE to
             part == IF Head(rs) \in drop \/ lo > hi THEN <<>>
                     ELSE SubSeq(line, lo, hi)
         IN  part \o Kept(Tail(rs), drop, from - n, to - n)

\* A shadow run keeps the locals and the promise, not the observations.
Shadowed(st) == [buffer |-> st.buffer, fullResponse |-> st.fullResponse,
                 sink |-> st.sink, promise |-> st.promise, value |-> st.value]

Unshadowed(sh) == [buffer |-> sh.buffer, fullResponse |-> sh.fullResponse,
                   sink |-> sh.sink, promise |-> sh.promise, value |-> sh.value,
                   hist |-> NoHist]

----------------------------------------------------------------------------
\* The chat() call around the decoder: what axios.post can throw, the catch
\* blocks, and the non-streaming branch of the service.

Models == {"llama3", "gpt-4o"}

\* An error object: its class, and the fields the catch blocks read.
NoError == [class |-> "none", code |-> "none", status |-> "none", message |-> <<>>]

\* axios.isAxiosError(error)
isAxiosError(e) == e.class = "AxiosError"

\* Errors axios.post rejects with: an AxiosError has a code and, when the
\* server answered, a response with a status.
AxiosErrors ==
    [class        : {"AxiosError"},
     code         : {"ECONNREFUSED", "ECONNABORTED", "ERR_BAD_RESPONSE"},
     status       : {"404", "500", "none"},
     message      : {<<"timeout of 120000ms exceeded">>, <<"Request failed">>}]

\* Anything else thrown inside the try block.
OtherErrors ==
    {[class |-> "Error", code |-> "none", status |-> "none",
      message |-> <<"TypeError">>]}

PostErrors == AxiosErrors \cup OtherErrors

\* new Error(message)
Error(message) == [kind |-> "Error", text |-> message]

\* The value a rejected promise carries when the error e itself is passed on.
Thrown(e) == [kind |-> "thrown", text |-> e.message]

CannotConnect == <<"Cannot connect to Ollama. Make sure Ollama is running on localhost:11434.">>
ModelNotFound(m) ==
    <<"Model \"", m, "\" not found. Please pull the model first using: ollama pull ", m>>
GenericFailure == <<"Failed to chat with the model. Please try again.">>

\* A catch block that tests the 404 before the error code.
serviceCatchStatusFirst(st, e, m) ==
    LET message == IF isAxiosError(e) /\ e.status = "404" THEN ModelNotFound(m)
                   ELSE IF isAxiosError(e) /\ e.code = "ECONNREFUSED" THEN CannotConnect
                   ELSE GenericFailure
    IN  reject(st, Error(message), "catch")

\* OllamaService.chat: catch (error) { ... throw new Error(...) }
serviceCatch(st, e, m) ==
    LET message == IF isAxiosError(e) /\ e.code = "ECONNREFUSED" THEN CannotConnect
                   ELSE IF isAxiosError(e) /\ e.status = "404" THEN ModelNotFound(m)
                   ELSE GenericFailure
    IN  reject(st, Error(message), "catch")

ProviderCannotConnect ==
    <<"[Error: Cannot connect to Ollama. Please ensure Ollama is running on localhost:11434]">>
ProviderModelNotFound(m) ==
    <<"[Error: Model \"", m, "\" not found. Please ensure the model is installed in Ollama]">>
ProviderError(message) == <<"[Error: ">> \o message \o <<"]">>

\* A catch block that swallows the error without telling the sink.
providerCatchSilent(st, e, m) == resolve(st, Undefined, "catch")

\* OllamaLanguageModelProvider.chat: catch (error) { ... onStream(...) }, after
\* which the async function returns undefined.
providerCatch(st, e, m) ==
    LET fragment == IF isAxiosError(e) /\ e.code = "ECONNREFUSED" THEN ProviderCannotConnect
                    ELSE IF isAxiosError(e) /\ e.status = "404" THEN ProviderModelNotFound(m)
                    ELSE ProviderError(e.message)
    IN  resolve([st EXCEPT !.sink = Append(@, fragment)], Undefined, "catch")

\* Response bodies of a non-streaming call: ChatCompletionResponse, with the
\* fields the optional chaining allows to be missing.
NoContent == <<"undefined">>
NoMessage == [content |-> <<"no message">>]
Messages == {NoMessage} \cup [content : {NoContent, <<>>, <<"Hi there">>, <<"Bye">>}]
Choices == [message : Messages]
NoBody == [choices |-> <<>>]
Bodies == [choices : {<<>>} \cup {<<c>> : c \in Choices}
                       \cup {<<c, d>> : c \in Choices, d \in Choices}]

\* s || ''
orEmpty(content) == IF content \in {NoContent, <<>>} THEN <<>> ELSE content

\* An extraction that reads the last choice.
extractLast(data) ==
    IF data.choices = <<>> THEN <<>>
    ELSE LET c == data.choices[Len(data.choices)]
         IN  IF c.message = NoMessage THEN <<>> ELSE orEmpty(c.message.content)

\* data.choices[0]?.message?.content || ''
extract(data) ==
    IF data.choices = <<>> THEN <<>>
    ELSE LET c == data.choices[1]
         IN  IF c.message = NoMessage THEN <<>> ELSE orEmpty(c.message.content)

\* VSCodeLanguageModelProvider: the models chat() knows, by name or id.
SUPPORTED_MODELS == {"gpt-4o"}

\* Errors vscode.lm.selectChatModels and sendRequest reject with.
LanguageModelErrors ==
    [class   : {"LanguageModelError"},
     code    : {"none"},
     status  : {"none"},
     message : {<<"permission">>, <<"blocked">>, <<"not found">>, <<"quota">>,
                <<"blocked", "permission">>}]

LMErrors == LanguageModelErrors \cup OtherErrors

\* throw new Error(`Model ${model} not found`) and `... not available`
ModelUnknown(m) == [class |-> "Error", code |-> "none", status |-> "none",
                    message |-> <<"Model ", m, " not found">>]
ModelUnavailable(m) == [class |-> "Error", code |-> "none", status |-> "none",
                        message |-> <<"Model ", m, " not available">>]

\* message.includes(w)
includes(message, w) == \E i \in 1..Len(message) : message[i] = w

\* `${error}` of an Error: its name, ': ' and its message.
toErrorString(e) == <<e.class, ": ">> \o e.message

\* An outer catch block that tells the sink nothing.
lmCatchSilent(st, e) == resolve(st, Undefined, "catch")

\* VSCodeLanguageModelProvider.chat: the outer catch (error) { ... onStream(...) }
lmCatch(st, e) ==
    LET errorMessage ==
            IF includes(e.message, "permission") \/ includes(e.message, "consent")
            THEN <<"Permission denied. Please ensure GitHub Copilot is enabled and you have given consent to use language models.">>
            ELSE IF includes(e.message, "blocked") \/ includes(e.message, "policy")
            THEN <<"Request was blocked. The content might be against usage policies.">>
            ELSE IF includes(e.message, "not found") \/ includes(e.message, "unavailable")
            THEN <<"The requested model was not found or is unavailable.">>
            ELSE <<"Language Model Error: ">> \o e.message
        fragment == IF e.class = "LanguageModelError"
                    THEN <<"[">> \o errorMessage \o <<"]">>
                    ELSE <<"[Error: ">> \o toErrorString(e) \o <<"]">>
    IN  resolve([st EXCEPT !.sink = Append(@, fragment)], Undefined, "catch")

\* The inner catch (streamError) { onStream(...) }, after which chat() returns.
lmStreamCatch(st, e) ==
    resolve([st EXCEPT !.sink = Append(@, <<"[Error streaming response: ">> \o e.message \o <<"]">>)],
            Undefined, "streamCatch")

\* The fragments chatResponse.text yields.
LMStreams == {<<>>, <<(<<"a">>)>>, <<(<<"a">>), (<<"b">>)>>}

\* Response bodies the whole-call specification streams.
ChatBodies == {<<"delta", "done">>, <<"message", "stopc", "delta">>, <<"bad">>}

\* The call has passed "await axios.post" and is streaming.
StreamingCall ==
    /\ phase = "streaming"
    /\ model = "llama3"
    /\ onChunk = TRUE
    /\ caught = NoError
    /\ body = NoBody

\* No chat request has been posted by the webview.
NoRequests ==
    /\ isStreaming = FALSE
    /\ inbox = <<>>
    /\ requests = <<>>
    /\ chatHistory = <<>>
    /\ currentStreamingMessage = FALSE

NoCall == [op |-> "none", provider |-> "none"]

NoCheck == [state |-> "none", available |-> {}, before |-> "none", after |-> "none"]

\* new UnifiedLanguageModelService(), before anything was called on it.
FreshService ==
    /\ currentProvider = "ollama"
    /\ lastSet = "none"
    /\ lastCall = NoCall
    /\ check = NoCheck

NoOptions == [systemPrompt |-> <<>>]

NotSent == [called |-> FALSE, messages |-> <<>>]

\* No conversation is being converted.
NoConversion ==
    /\ messages = <<>>
    /\ options = NoOptions
    /\ idx = 0
    /\ vscodeMessages = <<>>
    /\ sent = NotSent

NoSwitch == [state |-> "none", available |-> {}, selected |-> "none"]

\* The switch command is not running and no chat call was made.
NoSession ==
    /\ switch = NoSwitch
    /\ flights = <<>>

----------------------------------------------------------------------------
\* The state machine

Request == [buffer |-> buffer, fullResponse |-> fullResponse, sink |-> sink,
            promise |-> promise, value |-> value, hist |-> hist]

Becomes(st) ==
    /\ buffer' = st.buffer
    /\ fullResponse' = st.fullResponse
    /\ sink' = st.sink
    /\ promise' = st.promise
    /\ value' = st.value
    /\ hist' = st.hist

Init ==
    /\ impl \in {"provider", "service"}
    /\ records \in RecordSeqs
    /\ stream = Body(records)
    /\ pos = 0
    /\ transport = "open"
    /\ cancelled = FALSE
    /\ timer = IF impl = "service" THEN "armed" ELSE "none"
    /\ buffer = NewRequest.buffer
    /\ fullResponse = NewRequest.fullResponse
    /\ sink = NewRequest.sink
    /\ promise = NewRequest.promise
    /\ value = NewRequest.value
    /\ hist = NewRequest.hist
    /\ shadow = [malformed |-> Shadowed(NewRequest), contentless |-> Shadowed(NewRequest)]
    /\ StreamingCall
    /\ NoRequests
    /\ FreshService
    /\ NoConversion
    /\ NoSession

\* The transport emits 'data' with the next n bytes of the body.
DataEvent ==
    /\ transport = "open"
    /\ \E n \in 1..(Len(stream) - pos) :
          /\ pos' = pos + n
          /\ LET st == onData(impl, cancelled, Request, SubSeq(stream, pos + 1, pos + n))
             IN  Becomes(st)
          /\ shadow' =
               [malformed   |-> Shadowed(onData(impl, cancelled, Unshadowed(shadow.malformed),
                                    Kept(records, Malformed, pos, pos + n))),
                contentless |-> Shadowed(onData(impl, cancelled, Unshadowed(shadow.contentless),
                                    Kept(records, Contentless, pos, pos + n)))]
    /\ UNCHANGED outside
    /\ UNCHANGED <<impl, records, stream, transport, cancelled, timer>>

\* The transport emits 'end' once the whole body has been delivered.
EndEvent ==
    /\ transport = "open"
    /\ pos = Len(stream)
    /\ transport' = "ended"
    /\ timer' = IF timer = "armed" THEN "cleared" ELSE timer
    /\ LET st == onEnd(impl, Request) IN Becomes(st)
    /\ shadow' = [k \in DOMAIN shadow |-> Shadowed(onEnd(impl, Unshadowed(shadow[k])))]
    /\ UNCHANGED outside
    /\ UNCHANGED <<impl, records, stream, pos, cancelled>>

\* The transport emits 'error' (the connection breaks) at any point of the body.
ErrorEvent ==
    /\ transport = "open"
    /\ transport' = "errored"
    /\ LET st == onError(impl, Request) IN Becomes(st)
    /\ shadow' = [k \in DOMAIN shadow |-> Shadowed(onError(impl, Unshadowed(shadow[k])))]
    /\ UNCHANGED outside
    /\ UNCHANGED <<impl, records, stream, pos, cancelled, timer>>

\* The transport goes silent: it delivers no further event.  Silence after the
\* request has settled changes nothing and is left out.
Stall ==
    /\ transport = "open"
    /\ promise = "pending"
    /\ transport' = "stalled"
    /\ UNCHANGED outside
    /\ UNCHANGED <<impl, records, stream, pos, cancelled, timer, buffer,
                   fullResponse, sink, promise, value, hist, shadow>>

\* The two-minute timer of the service fires.
Timeout ==
    /\ timer = "armed"
    /\ timer' = "fired"
    /\ LET st == onTimeout(Request) IN Becomes(st)
    /\ shadow' = [k \in DOMAIN shadow |-> Shadowed(onTimeout(Unshadowed(shadow[k])))]
    /\ UNCHANGED outside
    /\ UNCHANGED <<impl, records, stream, pos, transport, cancelled>>

\* The caller of the provider cancels the token.  Only the 'data' handler
\* reads the token, so a cancellation after the connection is over is left out.
Cancel ==
    /\ impl = "provider"
    /\ transport = "open"
    /\ ~cancelled
    /\ cancelled' = TRUE
    /\ hist' = [hist EXCEPT !.lastEvent = "cancel"]
    /\ UNCHANGED outside
    /\ UNCHANGED <<impl, records, stream, pos, transport, timer, buffer,
                   fullResponse, sink, promise, value, shadow>>

Next == DataEvent \/ EndEvent \/ ErrorEvent \/ Stall \/ Timeout \/ Cancel

Spec == Init /\ [][Next]_vars

\* A connection that has not gone silent (Stall) comes to its end or breaks,
\* and an armed timer fires.  Whether the transport goes silent and whether
\* the caller cancels are not the program's to decide.
FairSpec ==
    /\ Spec
    /\ WF_vars(EndEvent \/ ErrorEvent)
    /\ WF_vars(Timeout)

----------------------------------------------------------------------------
\* OllamaChatProvider.handleSendMessage around a streaming call of the service

\* panel.webview.postMessage({command: 'streamChunk', chunk}) for each fragment
streamChunks(fragments) ==
    [j \in 1..Len(fragments) |-> [command |-> "streamChunk", chunk |-> fragments[j]]]

\* The messages posted to the webview so far.  The continuation of "await
\* this.ollamaService.chat(...)" runs as soon as the promise settles, before
\* the next stream or timer callback: 'finishStreaming' (after 'showError',
\* when the promise was rejected) follows the chunks emitted up to the
\* settlement and precedes the chunks emitted after it.
webviewMessages(st) ==
    LET start  == <<[command |-> "startStreaming", chunk |-> <<>>]>>
        finish == <<[command |-> "finishStreaming", chunk |-> <<>>]>>
        error  == <<[command |-> "showError", chunk |-> <<>>]>>
        n      == st.hist.settleSinkLen
    IN  IF st.promise = "pending" THEN start \o streamChunks(st.sink)
        ELSE start \o streamChunks(SubSeq(st.sink, 1, n))
                   \o (IF st.promise = "rejected" THEN error ELSE <<>>)
                   \o finish
                   \o streamChunks(SubSeq(st.sink, n + 1, Len(st.sink)))

----------------------------------------------------------------------------
\* The whole chat() call: the request before the stream, then the decoder

allVars == <<vars, chatVars, uiVars, unifiedVars, promptVars, sessionVars>>

ChatInit ==
    /\ impl \in {"provider", "service", "vscode-lm"}
    /\ model \in Models
    /\ onChunk \in (IF impl = "service" THEN BOOLEAN ELSE {TRUE})
    /\ records \in (IF impl = "vscode-lm" THEN {<<>>} ELSE ChatBodies)
    /\ stream \in (IF impl = "vscode-lm" THEN LMStreams ELSE {Body(records)})
    /\ pos = 0
    /\ transport = "connecting"
    /\ cancelled = FALSE
    /\ timer = "none"
    /\ buffer = NewRequest.buffer
    /\ fullResponse = NewRequest.fullResponse
    /\ sink = NewRequest.sink
    /\ promise = NewRequest.promise
    /\ value = NewRequest.value
    /\ hist = NewRequest.hist
    /\ shadow = [malformed |-> Shadowed(NewRequest), contentless |-> Shadowed(NewRequest)]
    /\ phase = IF impl = "vscode-lm" THEN "finding" ELSE "posting"
    /\ caught = NoError
    /\ body = NoBody
    /\ NoRequests
    /\ FreshService
    /\ NoConversion
    /\ NoSession

\* What a step before or after the stream leaves alone.
Unstreamed == <<impl, records, stream, pos, cancelled, timer, shadow, model, onChunk,
                uiVars, unifiedVars, promptVars,
                sessionVars>>

\* await axios.post(...) rejects: the catch block of chat() runs.
PostFails ==
    /\ phase = "posting"
    /\ \E e \in PostErrors :
          /\ caught' = e
          /\ LET st == IF impl = "service" THEN serviceCatch(Request, e, model)
                       ELSE providerCatch(Request, e, model)
             IN  Becomes(st)
    /\ phase' = "returned"
    /\ transport' = "none"
    /\ UNCHANGED <<Unstreamed, body>>

\* await axios.post(...) resolves with a stream: the promise executor runs and
\* registers the handlers (and, in the service, arms the timer).
PostRespondsStream ==
    /\ phase = "posting"
    /\ onChunk
    /\ phase' = "streaming"
    /\ transport' = "open"
    /\ timer' = IF impl = "service" THEN "armed" ELSE "none"
    /\ UNCHANGED <<impl, records, stream, pos, cancelled, buffer, fullResponse,
                   sink, promise, value, hist, shadow, model, onChunk, caught, body,
                   uiVars, unifiedVars, promptVars,
                sessionVars>>

\* await axios.post(...) resolves with a JSON body: the non-streaming branch.
PostRespondsJson ==
    /\ phase = "posting"
    /\ ~onChunk
    /\ \E data \in Bodies :
          /\ body' = data
          /\ LET st == resolve(Request, Text(extract(data)), "return")
             IN  Becomes(st)
    /\ phase' = "returned"
    /\ transport' = "none"
    /\ UNCHANGED <<Unstreamed, caught>>

\* An error e reaches the outer catch block of VSCodeLanguageModelProvider.chat.
LMFails(e) ==
    /\ caught' = e
    /\ LET st == lmCatch(Request, e) IN Becomes(st)
    /\ phase' = "returned"
    /\ UNCHANGED <<Unstreamed, transport, body>>

\* What a step of VSCodeLanguageModelProvider.chat that only moves on leaves alone.
LMProceeds ==
    UNCHANGED <<impl, records, stream, pos, transport, cancelled, timer, buffer,
                fullResponse, sink, promise, value, hist, shadow, model, onChunk,
                caught, body, uiVars, unifiedVars, promptVars,
                sessionVars>>

\* SUPPORTED_MODELS.find(...); if (!modelInfo) throw ...
FindModel ==
    /\ phase = "finding"
    /\ IF model \in SUPPORTED_MODELS
       THEN phase' = "selecting" /\ LMProceeds
       ELSE LMFails(ModelUnknown(model))

\* await vscode.lm.selectChatModels(...); if (models.length === 0) throw ...
SelectChatModels ==
    /\ phase = "selecting"
    /\ \/ phase' = "sending" /\ LMProceeds
       \/ LMFails(ModelUnavailable(model))
       \/ \E e \in LMErrors : LMFails(e)

\* await selectedModel.sendRequest(...)
SendRequest ==
    /\ phase = "sending"
    /\ \/ phase' = "iterating" /\ LMProceeds
       \/ \E e \in LMErrors : LMFails(e)

\* for await (const fragment of chatResponse.text): one fragment arrives.
NextFragment ==
    /\ phase = "iterating"
    /\ pos < Len(stream)
    /\ pos' = pos + 1
    /\ IF cancelled
       THEN /\ LET st == resolve(Request, Undefined, "cancel") IN Becomes(st)
            /\ phase' = "returned"
       ELSE /\ sink' = Append(sink, stream[pos + 1])
            /\ phase' = "iterating"
            /\ UNCHANGED <<buffer, fullResponse, promise, value, hist>>
    /\ UNCHANGED <<impl, records, stream, transport, cancelled, timer, shadow,
                   model, onChunk, caught, body, uiVars, unifiedVars, promptVars,
                sessionVars>>

\* for await: the iteration is over, chat() returns.
IterationEnds ==
    /\ phase = "iterating"
    /\ pos = Len(stream)
    /\ LET st == resolve(Request, Undefined, "return") IN Becomes(st)
    /\ phase' = "returned"
    /\ UNCHANGED <<Unstreamed, transport, caught, body>>

\* for await: the iteration throws, the inner catch block runs.
IterationThrows ==
    /\ phase = "iterating"
    /\ \E e \in LMErrors :
          /\ caught' = e
          /\ LET st == lmStreamCatch(Request, e) IN Becomes(st)
    /\ phase' = "returned"
    /\ UNCHANGED <<Unstreamed, transport, body>>

\* The caller of VSCodeLanguageModelProvider.chat cancels the token.
CancelLM ==
    /\ phase \in {"selecting", "sending", "iterating"}
    /\ ~cancelled
    /\ cancelled' = TRUE
    /\ UNCHANGED <<impl, records, stream, pos, transport, timer, buffer,
                   fullResponse, sink, promise, value, hist, shadow, phase,
                   model, onChunk, caught, body, uiVars, unifiedVars, promptVars,
                sessionVars>>

ChatNext ==
    \/ PostFails \/ PostRespondsStream \/ PostRespondsJson
    \/ FindModel \/ SelectChatModels \/ SendRequest
    \/ NextFragment \/ IterationEnds \/ IterationThrows \/ CancelLM
    \/ DataEvent \/ EndEvent \/ ErrorEvent \/ Stall \/ Timeout \/ Cancel

ChatSpec == ChatInit /\ [][ChatNext]_allVars

\* The timer the service armed fires unless the 'end' handler cleared it.
TimedChatSpec == ChatSpec /\ WF_allVars(Timeout)

----------------------------------------------------------------------------
\* The webview and OllamaChatProvider: who posts which message when

\* No chat() call is being looked at.
NoChat ==
    /\ impl = "service"
    /\ records = <<>>
    /\ stream = <<>>
    /\ pos = 0
    /\ transport = "none"
    /\ cancelled = FALSE
    /\ timer = "none"
    /\ buffer = NewRequest.buffer
    /\ fullResponse = NewRequest.fullResponse
    /\ sink = NewRequest.sink
    /\ promise = NewRequest.promise
    /\ value = NewRequest.value
    /\ hist = NewRequest.hist
    /\ shadow = [malformed |-> Shadowed(NewRequest), contentless |-> Shadowed(NewRequest)]
    /\ phase = "none"
    /\ model = "llama3"
    /\ onChunk = TRUE
    /\ caught = NoError
    /\ body = NoBody

UiInit == NoChat /\ NoRequests /\ FreshService /\ NoConversion /\ NoSession

\* What the webview and the handler of its messages leave alone.
UiOnly == UNCHANGED <<vars, chatVars, unifiedVars, promptVars, sessionVars>>

\* panel.webview.postMessage({command: ...}) of the handler of request r
\* (message: the role of the chat message it carries, if any)
MessageWith(command, r, role) == [command |-> command, request |-> r, message |-> role]

Message(command, r) == MessageWith(command, r, "none")

\* webview sendMessage(): returns at once while isStreaming (and when no model
\* or no text is entered), else posts 'sendMessage' to the extension.
sendMessage ==
    /\ ~isStreaming
    /\ Len(requests) < MaxSends
    /\ requests' = Append(requests, "posted")
    /\ UNCHANGED <<isStreaming, inbox, chatHistory, currentStreamingMessage>>
    /\ UiOnly

\* onDidReceiveMessage delivers the oldest 'sendMessage' not yet handled:
\* handleSendMessage posts 'addMessage' and 'startStreaming', then awaits chat().
handleSendMessage(r) ==
    /\ requests[r] = "posted"
    /\ \A q \in 1..(r - 1) : requests[q] # "posted"
    /\ inbox' = inbox \o <<MessageWith("addMessage", r, "user"),
                            Message("startStreaming", r)>>
    /\ requests' = [requests EXCEPT ![r] = "streaming"]
    /\ UNCHANGED <<isStreaming, chatHistory, currentStreamingMessage>>
    /\ UiOnly

\* The chunk callback of request r posts 'streamChunk'.
onChunkPosts(r) ==
    /\ requests[r] = "streaming"
    /\ inbox' = Append(inbox, Message("streamChunk", r))
    /\ requests' = [requests EXCEPT ![r] = "streamed"]
    /\ UNCHANGED <<isStreaming, chatHistory, currentStreamingMessage>>
    /\ UiOnly

\* chat() of request r settles: 'finishStreaming' with the assistant's
\* message when it was resolved, 'showError' and 'finishStreaming' without a
\* message when it was rejected.
chatSettles(r) ==
    /\ requests[r] \in {"streaming", "streamed"}
    /\ \E rejected \in BOOLEAN :
          inbox' = inbox \o (IF rejected
                             THEN <<Message("showError", r), Message("finishStreaming", r)>>
                             ELSE <<MessageWith("finishStreaming", r, "assistant")>>)
    /\ requests' = [requests EXCEPT ![r] = "finished"]
    /\ UNCHANGED <<isStreaming, chatHistory, currentStreamingMessage>>
    /\ UiOnly

\* window.addEventListener('message', ...): the webview receives the oldest
\* message posted to it.
webviewReceives ==
    /\ inbox # <<>>
    /\ LET message == Head(inbox)
       IN  /\ isStreaming' = CASE message.command = "startStreaming"  -> TRUE
                               [] message.command = "finishStreaming" -> FALSE
                               [] OTHER -> isStreaming
           /\ requests' = IF message.command = "finishStreaming"
                          THEN [requests EXCEPT ![message.request] = "done"]
                          ELSE requests
           /\ currentStreamingMessage' =
                 CASE message.command = "startStreaming"  -> TRUE
                   [] message.command = "finishStreaming" -> FALSE
                   [] OTHER -> currentStreamingMessage
           /\ chatHistory' =
                 CASE message.command = "addMessage" ->
                        Append(chatHistory, [role |-> message.message,
                                             request |-> message.request])
                   [] /\ message.command = "finishStreaming"
                      /\ currentStreamingMessage
                      /\ message.message # "none" ->
                        Append(chatHistory, [role |-> message.message,
                                             request |-> message.request])
                   [] OTHER -> chatHistory
    /\ inbox' = Tail(inbox)
    /\ UiOnly

UiNext ==
    \/ sendMessage
    \/ \E r \in DOMAIN requests : handleSendMessage(r)
    \/ \E r \in DOMAIN requests : onChunkPosts(r)
    \/ \E r \in DOMAIN requests : chatSettles(r)
    \/ webviewReceives

UiSpec == UiInit /\ [][UiNext]_allVars

----------------------------------------------------------------------------
\* UnifiedLanguageModelService and the startup check of the extension

UnifiedInit == NoChat /\ NoRequests /\ FreshService /\ NoConversion /\ NoSession

\* What the unified service and the startup check leave alone.
UnifiedOnly == UNCHANGED <<vars, chatVars, uiVars, promptVars, sessionVars>>

\* type ProviderType, in the order getAvailableProviders lists the providers.
ProviderTypes == <<"ollama", "vscode-lm">>

Operations == {"chat", "getAvailableModels", "isCurrentProviderAvailable"}

\* A getActiveProvider with the two providers swapped.
getActiveProviderSwapped(cp) == IF cp = "ollama" THEN "vscode-lm" ELSE "ollama"

\* getActiveProvider(): the provider object, named by its type.
getActiveProvider(cp) == IF cp = "ollama" THEN "ollama" ELSE "vscode-lm"

\* A test that finds the current provider unavailable whatever the probe said.
isCurrentAvailableNever(cp, available) == FALSE

\* providers.find(p => p.type === currentProvider)?.available
isCurrentAvailable(cp, available) == cp \in available

\* availableProviders[0] of providers.filter(p => p.available)
firstAvailable(available) ==
    LET availableProviders == SelectSeq(ProviderTypes, LAMBDA t : t \in available)
    IN  availableProviders[1]

\* The 'switch provider' command of the user: unifiedService.setProvider(p)
setProvider ==
    /\ \E p \in {ProviderTypes[i] : i \in DOMAIN ProviderTypes} :
          /\ currentProvider' = p
          /\ lastSet' = p
    /\ UNCHANGED <<lastCall, check>>
    /\ UnifiedOnly

\* chat, getAvailableModels or isCurrentProviderAvailable is called: it is
\* passed on to getActiveProvider().
Dispatch ==
    /\ \E op \in Operations :
          lastCall' = [op |-> op, provider |-> getActiveProvider(currentProvider)]
    /\ UNCHANGED <<currentProvider, lastSet, check>>
    /\ UnifiedOnly

\* activate() calls checkProviderAvailability, which awaits getAvailableProviders().
StartCheck ==
    /\ check.state = "none"
    /\ check' = [check EXCEPT !.state = "probing"]
    /\ UNCHANGED <<currentProvider, lastSet, lastCall>>
    /\ UnifiedOnly

\* getAvailableProviders() has asked both providers isAvailable().
ProbeReturns ==
    /\ check.state = "probing"
    /\ \E available \in SUBSET {"ollama", "vscode-lm"} :
          check' = [check EXCEPT !.state = "probed", !.available = available]
    /\ UNCHANGED <<currentProvider, lastSet, lastCall>>
    /\ UnifiedOnly

\* Something inside the try block throws: catch (error) { console.error(...) }
CheckThrows ==
    /\ check.state \in {"probing", "warning", "refreshing"}
    /\ check' = [check EXCEPT !.state = "failed"]
    /\ UNCHANGED <<currentProvider, lastSet, lastCall>>
    /\ UnifiedOnly

\* The code after "await getAvailableProviders()" up to the next await.
Decide ==
    /\ check.state = "probed"
    /\ IF check.available = {}
       THEN /\ check' = [check EXCEPT !.state = "warning",
                                      !.before = currentProvider,
                                      !.after = currentProvider]
            /\ UNCHANGED <<currentProvider, lastSet>>
       ELSE IF ~isCurrentAvailable(currentProvider, check.available)
       THEN /\ currentProvider' = firstAvailable(check.available)
            /\ lastSet' = firstAvailable(check.available)
            /\ check' = [check EXCEPT !.state = "refreshing",
                                      !.before = currentProvider,
                                      !.after = firstAvailable(check.available)]
       ELSE /\ check' = [check EXCEPT !.state = "finished",
                                      !.before = currentProvider,
                                      !.after = currentProvider]
            /\ UNCHANGED <<currentProvider, lastSet>>
    /\ UNCHANGED lastCall
    /\ UnifiedOnly

\* The warning is dismissed, or refreshModelsForProvider() has returned.
CheckReturns ==
    /\ check.state \in {"warning", "refreshing"}
    /\ check' = [check EXCEPT !.state = "finished"]
    /\ UNCHANGED <<currentProvider, lastSet, lastCall>>
    /\ UnifiedOnly

UnifiedNext ==
    \/ setProvider \/ Dispatch
    \/ StartCheck \/ ProbeReturns \/ CheckThrows \/ Decide \/ CheckReturns

UnifiedSpec == UnifiedInit /\ [][UnifiedNext]_allVars

----------------------------------------------------------------------------
\* The 'ollamaChat.switchProvider' command, and chat calls on the unified
\* service while the provider is switched

\* Most chat calls in one run.
MaxFlights == 2

SessionInit == NoChat /\ NoRequests /\ FreshService /\ NoConversion /\ NoSession

SessionOnly == UNCHANGED <<vars, chatVars, uiVars, promptVars, check>>

\* What showQuickPick can resolve with: an item, or undefined when dismissed.
Picks == {"ollama", "vscode-lm", "dismissed"}

\* A command that switches to whatever was picked.
switchAllowedUnprobed(selected, cp, available) ==
    selected # "dismissed" /\ selected # cp

\* if (selected) { if (selected.provider !== getCurrentProvider()) {
\*   if (!providerInfo?.available) { ...; return; }  setProvider(...)
switchAllowed(selected, cp, available) ==
    selected # "dismissed" /\ selected # cp /\ selected \in available

\* The command is run: it awaits unifiedService.getAvailableProviders().
StartSwitch ==
    /\ switch.state \in {"none", "done", "failed"}
    /\ switch' = [NoSwitch EXCEPT !.state = "probing"]
    /\ UNCHANGED <<currentProvider, lastSet, lastCall, flights>>
    /\ SessionOnly

\* getAvailableProviders() returns; the command awaits showQuickPick(items).
SwitchProbeReturns ==
    /\ switch.state = "probing"
    /\ \E available \in SUBSET {"ollama", "vscode-lm"} :
          switch' = [switch EXCEPT !.state = "picking", !.available = available]
    /\ UNCHANGED <<currentProvider, lastSet, lastCall, flights>>
    /\ SessionOnly

\* showQuickPick resolves; the code up to the next await or return.
Pick(selected) ==
    /\ switch.state = "picking"
    /\ IF switchAllowed(selected, currentProvider, switch.available)
       THEN /\ currentProvider' = selected
            /\ lastSet' = selected
            /\ switch' = [switch EXCEPT !.state = "refreshing", !.selected = selected]
       ELSE /\ switch' = [switch EXCEPT !.state = "done", !.selected = selected]
            /\ UNCHANGED <<currentProvider, lastSet>>
    /\ UNCHANGED <<lastCall, flights>>
    /\ SessionOnly

\* await chatProvider.refreshModelsForProvider() returns.
SwitchReturns ==
    /\ switch.state = "refreshing"
    /\ switch' = [switch EXCEPT !.state = "done"]
    /\ UNCHANGED <<currentProvider, lastSet, lastCall, flights>>
    /\ SessionOnly

\* An await of the command rejects: catch (error) { showErrorMessage(...) }
SwitchThrows ==
    /\ switch.state \in {"probing", "refreshing"}
    /\ switch' = [switch EXCEPT !.state = "failed"]
    /\ UNCHANGED <<currentProvider, lastSet, lastCall, flights>>
    /\ SessionOnly

\* A chat that asks for the active provider again at every fragment.
fragmentSourceCurrent(flight, cp) == getActiveProvider(cp)

\* The fragments of a call come from the provider whose chat() was called.
fragmentSource(flight, cp) == flight.provider

\* unifiedService.chat(...): return await this.getActiveProvider().chat(...)
ChatCall ==
    /\ Len(flights) < MaxFlights
    /\ flights' = Append(flights, [current   |-> currentProvider,
                                   provider  |-> getActiveProvider(currentProvider),
                                   fragments |-> {},
                                   settled   |-> 0])
    /\ lastCall' = [op |-> "chat", provider |-> getActiveProvider(currentProvider)]
    /\ UNCHANGED <<currentProvider, lastSet, switch>>
    /\ SessionOnly

\* The provider of call r passes a fragment to onStream.  Of the fragments
\* of a call the model keeps where each came from and which provider was
\* current when it came.
Fragment(r) ==
    /\ flights[r].settled = 0
    /\ flights' = [flights EXCEPT ![r].fragments =
                      @ \cup {[from   |-> fragmentSource(flights[r], currentProvider),
                               during |-> currentProvider]}]
    /\ UNCHANGED <<currentProvider, lastSet, lastCall, switch>>
    /\ SessionOnly

\* The promise of the provider's chat() settles, and with it the call's.
Settle(r) ==
    /\ flights[r].settled = 0
    /\ flights' = [flights EXCEPT ![r].settled = @ + 1]
    /\ UNCHANGED <<currentProvider, lastSet, lastCall, switch>>
    /\ SessionOnly

SessionNext ==
    \/ StartSwitch \/ SwitchProbeReturns \/ SwitchReturns \/ SwitchThrows
    \/ \E selected \in Picks : Pick(selected)
    \/ ChatCall
    \/ \E r \in DOMAIN flights : Fragment(r)
    \/ \E r \in DOMAIN flights : Settle(r)

SessionSpec == SessionInit /\ [][SessionNext]_allVars

----------------------------------------------------------------------------
\* The decoder on bodies that mix the record shapes

\* Record kinds with content in delta, in message, in both, and in neither.
ShapeKinds == {"plain", "message", "both", "empty"}

ShapeBodies == {<<k>> : k \in ShapeKinds} \cup {<<k, l>> : k \in ShapeKinds, l \in ShapeKinds}

ShapeInit ==
    /\ impl \in {"provider", "service"}
    /\ records \in ShapeBodies
    /\ stream = Body(records)
    /\ pos = 0
    /\ transport = "open"
    /\ cancelled = FALSE
    /\ timer = IF impl = "service" THEN "armed" ELSE "none"
    /\ buffer = NewRequest.buffer
    /\ fullResponse = NewRequest.fullResponse
    /\ sink = NewRequest.sink
    /\ promise = NewRequest.promise
    /\ value = NewRequest.value
    /\ hist = NewRequest.hist
    /\ shadow = [malformed |-> Shadowed(NewRequest), contentless |-> Shadowed(NewRequest)]
    /\ StreamingCall
    /\ NoRequests
    /\ FreshService
    /\ NoConversion
    /\ NoSession

ShapeSpec == ShapeInit /\ [][Next]_vars

----------------------------------------------------------------------------
\* The decoder on bodies whose last record is not followed by a newline

TailKinds == {"plain", "message", "both"}

TailBodies == {<<k>> : k \in TailKinds} \cup {<<k, l>> : k \in TailKinds, l \in TailKinds}

\* All records but the last.
Front(rs) == SubSeq(rs, 1, Len(rs) - 1)

\* The body of the records, ending with the last record's closing brace.
UnterminatedBody(rs) == Body(Front(rs)) \o RecordText(rs[Len(rs)])

TailInit ==
    /\ impl \in {"provider", "service"}
    /\ records \in TailBodies
    /\ stream = UnterminatedBody(records)
    /\ pos = 0
    /\ transport = "open"
    /\ cancelled = FALSE
    /\ timer = IF impl = "service" THEN "armed" ELSE "none"
    /\ buffer = NewRequest.buffer
    /\ fullResponse = NewRequest.fullResponse
    /\ sink = NewRequest.sink
    /\ promise = NewRequest.promise
    /\ value = NewRequest.value
    /\ hist = NewRequest.hist
    /\ shadow = [malformed |-> Shadowed(NewRequest), contentless |-> Shadowed(NewRequest)]
    /\ StreamingCall
    /\ NoRequests
    /\ FreshService
    /\ NoConversion
    /\ NoSession

TailSpec == TailInit /\ [][Next]_vars

----------------------------------------------------------------------------
\* The legacy decoder on an open stream

\* Record kinds of the bodies the legacy decoder is run on (ASCII content).
LegacyKinds == {"stopc", "done", "escaped", "bad"}

LegacyBodies == {<<k>> : k \in LegacyKinds} \cup {<<k, l>> : k \in LegacyKinds, l \in LegacyKinds}

LegacyInit ==
    /\ impl = "legacy"
    /\ records \in LegacyBodies
    /\ stream = Body(records)
    /\ pos = 0
    /\ transport = "open"
    /\ cancelled = FALSE
    /\ timer = "none"
    /\ buffer = NewRequest.buffer
    /\ fullResponse = NewRequest.fullResponse
    /\ sink = NewRequest.sink
    /\ promise = NewRequest.promise
    /\ value = NewRequest.value
    /\ hist = NewRequest.hist
    /\ shadow = [malformed |-> Shadowed(NewRequest), contentless |-> Shadowed(NewRequest)]
    /\ StreamingCall
    /\ NoRequests
    /\ FreshService
    /\ NoConversion
    /\ NoSession

\* What the handlers of the legacy decoder leave alone.
LegacyOnly == UNCHANGED <<impl, records, stream, cancelled, timer, shadow, outside>>

\* The transport emits 'data' with the next n bytes of the body.
LegacyDataEvent ==
    /\ transport = "open"
    /\ \E n \in 1..(Len(stream) - pos) :
          /\ pos' = pos + n
          /\ LET st == onDataLegacy(Request, SubSeq(stream, pos + 1, pos + n))
             IN  Becomes(st)
    /\ UNCHANGED transport
    /\ LegacyOnly

\* The transport emits 'end': resolve(fullResponse)
LegacyEndEvent ==
    /\ transport = "open"
    /\ pos = Len(stream)
    /\ transport' = "ended"
    /\ LET st == resolve([Request EXCEPT !.hist.lastEvent = "end"],
                         Text(fullResponse), "end")
       IN  Becomes(st)
    /\ UNCHANGED pos
    /\ LegacyOnly

\* The transport emits 'error': reject(error)
LegacyErrorEvent ==
    /\ transport = "open"
    /\ transport' = "errored"
    /\ LET st == reject([Request EXCEPT !.hist.lastEvent = "error"],
                        Failure("error"), "error")
       IN  Becomes(st)
    /\ UNCHANGED pos
    /\ LegacyOnly

LegacyNext == LegacyDataEvent \/ LegacyEndEvent \/ LegacyErrorEvent

LegacySpec == LegacyInit /\ [][LegacyNext]_allVars

----------------------------------------------------------------------------
\* VSCodeLanguageModelProvider.chat (the version with options): from the
\* conversation to the messages of sendRequest.  A content is a sequence of
\* pieces; "NLNL" is the '\n\n' the code joins with.

\* Most messages in a conversation.
MaxMessages == 3

Roles == {"system", "user", "assistant"}

ContentNames == <<"c1", "c2", "c3", "c4", "c5">>

\* The conversation with the given roles; every message has its own content.
Conversation(rs) ==
    [k \in 1..Len(rs) |-> [role |-> rs[k], content |-> <<ContentNames[k]>>]]

Conversations ==
    {Conversation(rs) : rs \in UNION {[1..n -> Roles] : n \in 0..MaxMessages}}

\* options?.systemPrompt: absent (or empty), or given.
OptionsSet == {NoOptions, [systemPrompt |-> <<"opt">>]}

DEFAULT_SYSTEM_PROMPT == <<"default">>

\* contents.join('\n\n')
RECURSIVE join(_)
join(contents) ==
    IF contents = <<>> THEN <<>>
    ELSE IF Len(contents) = 1 THEN Head(contents)
    ELSE Head(contents) \o <<"NLNL">> \o join(Tail(contents))

systemMessages(ms) == SelectSeq(ms, LAMBDA msg : msg.role = "system")

nonSystemMessages(ms) == SelectSeq(ms, LAMBDA msg : msg.role # "system")

\* let systemPrompt, as it stands when the conversion loop starts
systemPrompt(ms, opts) ==
    LET fromMessages == join([k \in 1..Len(systemMessages(ms)) |->
                                 systemMessages(ms)[k].content])
        withOptions  == IF opts.systemPrompt # <<>>
                        THEN IF fromMessages # <<>>
                             THEN opts.systemPrompt \o <<"NLNL">> \o fromMessages
                             ELSE opts.systemPrompt
                        ELSE fromMessages
        orDefault    == IF withOptions = <<>> THEN DEFAULT_SYSTEM_PROMPT
                        ELSE withOptions
    IN  IF orDefault # <<>> THEN orDefault \o <<"NLNL">> ELSE orDefault

PromptInit ==
    /\ NoChat
    /\ NoRequests
    /\ FreshService
    /\ NoSession
    /\ messages \in Conversations
    /\ options \in OptionsSet
    /\ idx = 0
    /\ vscodeMessages = <<>>
    /\ sent = NotSent

PromptOnly == UNCHANGED <<vars, chatVars, uiVars, unifiedVars, sessionVars>>

\* One turn of "for (let i = 0; i < nonSystemMessages.length; i++)".
ConvertMessage ==
    /\ ~sent.called
    /\ idx < Len(nonSystemMessages(messages))
    /\ LET msg     == nonSystemMessages(messages)[idx + 1]
           prompt  == systemPrompt(messages, options)
           content == IF idx = 0 /\ prompt # <<>>
                      THEN prompt \o msg.content ELSE msg.content
       IN  vscodeMessages' =
              Append(vscodeMessages,
                     IF msg.role = "user"
                     THEN [role |-> "user", content |-> content]
                     ELSE [role |-> "assistant", content |-> msg.content])
    /\ idx' = idx + 1
    /\ UNCHANGED <<messages, options, sent>>
    /\ PromptOnly

\* selectedModel.sendRequest(vscodeMessages, {}, cancellationToken)
SendMessages ==
    /\ ~sent.called
    /\ idx = Len(nonSystemMessages(messages))
    /\ sent' = [called |-> TRUE, messages |-> vscodeMessages]
    /\ UNCHANGED <<messages, options, idx, vscodeMessages>>
    /\ PromptOnly

PromptNext == ConvertMessage \/ SendMessages

PromptSpec == PromptInit /\ [][PromptNext]_allVars

----------------------------------------------------------------------------
\* Properties

\* The decoder fed the whole body as a single chunk.
OneChunk == onData(impl, FALSE, NewRequest, stream)

\* C1: however the body is cut into chunks, once the whole body has been
\* delivered (and nobody cancelled) the sink has received the same fragments,
\* in the same order, and the accumulated text is the same, as when the body
\* arrives as one chunk.
C1_FragmentationInvariance ==
    (transport = "ended" /\ ~cancelled) =>
        /\ sink = OneChunk.sink
        /\ fullResponse = OneChunk.fullResponse

\* The body is k 'delta' records followed by the [DONE] line.
DeltasThenDone ==
    /\ Len(records) >= 2
    /\ records[Len(records)] = "done"
    /\ \A j \in 1..(Len(records) - 1) : records[j] = "delta"

\* C2: for k framed delta records followed by [DONE], the service (its timer
\* not having fired) calls the sink exactly k times with the records' contents
\* in order and resolves with their concatenation; whenever it resolves, the
\* returned text is the concatenation of the fragments delivered up to then.
C2_DeltasThenDone ==
    /\ (impl = "service" /\ DeltasThenDone /\ transport = "ended" /\ timer # "fired") =>
          /\ sink = [j \in 1..(Len(records) - 1) |-> <<"e'">>]
          /\ promise = "resolved"
          /\ value = Text(Flatten(sink))
    /\ (impl = "service" /\ promise = "resolved") =>
          value = Text(Flatten(SubSeq(sink, 1, hist.settleSinkLen)))

\* C3: once the decoder has reached a [DONE] record or a record with
\* finish_reason 'stop', no step calls the sink again.
C3_NoEmissionAfterComplete == [][hist.complete => sink' = sink]_vars

\* C4: once a [DONE] record has been decoded the request's outcome is
\* successful completion (and, the state being an invariant, stays so).
C4_DoneMeansSuccess == hist.doneDecoded => promise = "resolved"

\* C5: in the provider, once the token is cancelled no step calls the sink.
C5_NoEmissionAfterCancel ==
    [][(impl = "provider" /\ cancelled) => sink' = sink]_vars

\* C6: once cancellation has been requested the promise is not rejected, and
\* a request settled by the cancellation check carries an outcome that tells
\* it from a normal completion.
C6_CancelledNeverFailed ==
    /\ [][(cancelled /\ promise = "pending") => promise' # "rejected"]_vars
    /\ [](hist.settledBy = "cancel" => value # Undefined)

\* The run emitted the fragments of run sh, in the same order, and once the
\* connection is over has the outcome of run sh.
SameRun(sh) ==
    /\ sink = sh.sink
    /\ fullResponse = sh.fullResponse
    /\ transport # "open" => (promise = sh.promise /\ value = sh.value)

C8_SettlesOnce ==
    /\ [][promise # "pending" => (promise' = promise /\ value' = value)]_vars
    /\ []((transport \in {"ended", "errored"} \/ timer = "fired") => promise # "pending")

\* A request completed by [DONE] on which a terminal event was handled later.
C8_Witness ==
    /\ hist.settledBy = "done"
    /\ hist.lastEvent \in {"error", "timeout"}
    /\ promise = "resolved"

C10_ProviderSettles == (impl = "provider") => <>(promise # "pending")

\* C11: a streaming request of the service that gets no terminal record, no
\* end and no error is rejected by the two-minute timer instead of staying
\* pending: the firing timer fails a pending request with the timeout error
\* and leaves a settled request's outcome as it is, and every streaming
\* request of the service eventually settles.
C11_TimerBoundsService ==
    /\ [][(timer = "armed" /\ timer' = "fired") =>
             IF promise = "pending"
             THEN promise' = "rejected" /\ value' = Failure("timeout")
             ELSE promise' = promise /\ value' = value]_vars
    /\ (impl = "service" /\ phase = "streaming") ~> (promise # "pending")

\* A silent stream whose request the timer failed.
C11_Witness ==
    /\ impl = "service"
    /\ transport = "stalled"
    /\ timer = "fired"
    /\ promise = "rejected"
    /\ value = Failure("timeout")

\* The catch block of OllamaService.chat received a connection-refused error.
Refused == isAxiosError(caught) /\ caught.code = "ECONNREFUSED"

\* ... or the error of a 404 response.
Status404 == isAxiosError(caught) /\ caught.status = "404"

\* C12: the service fails a connection-refused error with the 'cannot
\* connect' message and a 404 response with the 'model not found' message,
\* which names the requested model; each of the two messages is produced for
\* its condition only, they differ from each other and from the generic
\* message, and connection-refused wins when both conditions hold.
C12_FailureMapping ==
    (impl = "service" /\ caught # NoError) =>
        /\ promise = "rejected"
        /\ Refused <=> value = Error(CannotConnect)
        /\ (Status404 /\ ~Refused) <=> value = Error(ModelNotFound(model))
        /\ value = Error(ModelNotFound(model)) => includes(value.text, model)
        /\ \A m \in Models : /\ CannotConnect # ModelNotFound(m)
                             /\ CannotConnect # GenericFailure
                             /\ ModelNotFound(m) # GenericFailure
                             /\ \A n \in Models \ {m} : ModelNotFound(m) # ModelNotFound(n)

\* A refused connection whose error also carries a 404 response.
C12_Witness ==
    /\ impl = "service"
    /\ Refused /\ Status404
    /\ promise = "rejected"
    /\ value = Error(CannotConnect)

\* The text contains the message.
Carries(text, message) ==
    \E k \in 0..(Len(text) - Len(message)) :
        SubSeq(text, k + 1, k + Len(message)) = message

\* C13: every failure of the service that is neither connection-refused nor
\* a 404 is a failure whose message carries the underlying error's message.
C13_GenericCarriesMessage ==
    /\ (impl = "service" /\ caught # NoError /\ ~Refused /\ ~Status404) =>
          /\ promise = "rejected"
          /\ Carries(value.text, caught.message)
    /\ (impl = "service" /\ caught = NoError /\ promise = "rejected") =>
          value \in {Failure("error"), Failure("timeout")}

\* The fragments the providers report a failure with.
ErrorFragment(f) ==
    /\ f # <<>>
    /\ \/ f \in {ProviderCannotConnect, ProviderModelNotFound(model), <<"StreamError">>}
       \/ Head(f) \in {"[Error: ", "[", "[Error streaming response: "}

\* C14: when the transport of the Ollama provider fails, before the stream
\* or during it, the sink first gets one inline error fragment and then the
\* promise of chat() is rejected with the error itself.
C14_FragmentThenReject ==
    /\ (impl = "provider" /\ caught # NoError) =>
          /\ promise = "rejected"
          /\ value = Thrown(caught)
          /\ hist.settleSinkLen >= 1
          /\ ErrorFragment(sink[hist.settleSinkLen])
    /\ (impl = "provider" /\ hist.settledBy = "error") =>
          /\ promise = "rejected"
          /\ value = Failure("error")
          /\ hist.settleSinkLen >= 1
          /\ sink[hist.settleSinkLen] = <<"StreamError">>

\* The request failed: an error reached a catch block or rejected the promise.
Failed == caught # NoError \/ promise = "rejected"

\* C15: a request through a provider that fails has given the sink an inline
\* error fragment by the time it settles, as the last fragment before the
\* settlement; and the promise of VSCodeLanguageModelProvider.chat is never
\* rejected.
C15_NoSilentFailure ==
    /\ (impl \in {"provider", "vscode-lm"} /\ Failed /\ promise # "pending") =>
          /\ hist.settleSinkLen >= 1
          /\ ErrorFragment(sink[hist.settleSinkLen])
    /\ impl = "vscode-lm" => promise # "rejected"

\* A request to a VS Code model that failed while its answer was arriving.
C15_Witness ==
    /\ impl = "vscode-lm"
    /\ caught.class = "LanguageModelError"
    /\ promise = "resolved"
    /\ Len(sink) = 2
    /\ sink[1] = <<"a">>

\* choices[0].message.content of the body, or '' when that field is absent.
FirstContent(data) ==
    IF /\ data.choices # <<>>
       /\ data.choices[1].message # NoMessage
       /\ data.choices[1].message.content # NoContent
    THEN data.choices[1].message.content
    ELSE <<>>

\* C16: a call of the service without a sink returns the content of the
\* first choice's message of the response body, the empty string when that
\* field is absent, and never produces a fragment.
C16_NonStreaming ==
    /\ (impl = "service" /\ ~onChunk /\ phase = "returned" /\ caught = NoError) =>
          /\ promise = "resolved"
          /\ value = Text(FirstContent(body))
    /\ (impl = "service" /\ ~onChunk) => sink = <<>>

\* A body with two choices, of which the first one's content was returned.
C16_Witness ==
    /\ impl = "service" /\ ~onChunk
    /\ Len(body.choices) = 2
    /\ body.choices[1].message.content = <<"Hi there">>
    /\ body.choices[2].message.content = <<"Bye">>
    /\ promise = "resolved"
    /\ value = Text(<<"Hi there">>)

\* C17: the webview gets 'startStreaming' first, then 'streamChunk' messages,
\* then one 'finishStreaming' once the request has settled, and no
\* 'streamChunk' after the 'finishStreaming'.
C17_StreamingProtocol ==
    impl = "service" =>
        LET posted == webviewMessages(Request)
            last   == Len(posted)
        IN  /\ posted[1].command = "startStreaming"
            /\ \A j \in 2..last :
                  \/ posted[j].command \in {"streamChunk", "showError"}
                  \/ posted[j].command = "finishStreaming" /\ j = last
            /\ promise # "pending" => posted[last].command = "finishStreaming"

\* C18: the webview posts a 'sendMessage' only when every request it posted
\* before has had its 'finishStreaming' received: at most one request is in
\* flight.
C18_OneRequestInFlight ==
    [][Len(requests') > Len(requests) =>
          \A r \in DOMAIN requests : requests[r] = "done"]_allVars

\* C19: the unified service starts with 'ollama'; the current provider is
\* the argument of the last setProvider call; and every chat,
\* getAvailableModels and isCurrentProviderAvailable call goes to the provider
\* that is current when it is made.
C19_DispatchFollowsSetProvider ==
    /\ [](currentProvider = IF lastSet = "none" THEN "ollama" ELSE lastSet)
    /\ [][lastCall' # lastCall => lastCall'.provider = currentProvider]_allVars

\* The user switched to the VS Code provider and a chat went to it.
C19_Witness ==
    /\ check.state = "none"
    /\ lastSet = "vscode-lm"
    /\ currentProvider = "vscode-lm"
    /\ lastCall = [op |-> "chat", provider |-> "vscode-lm"]

\* C20: when the startup check decides, it makes the first available provider
\* (ollama before vscode-lm) current if its probe found some provider
\* available and the current one unavailable, and leaves the current provider
\* unchanged otherwise; no other step of the check, a failed probe included,
\* changes the current provider.
C20_StartupSwitch ==
    /\ [](check.state \in {"warning", "refreshing", "finished"} =>
             check.after =
                 IF check.available # {} /\ check.before \notin check.available
                 THEN (IF "ollama" \in check.available THEN "ollama" ELSE "vscode-lm")
                 ELSE check.before)
    /\ [][check' # check =>
             currentProvider' = IF check'.after # check.after THEN check'.after
                                ELSE currentProvider]_allVars

\* Ollama was current and unavailable, the VS Code provider available: the
\* check switched to it.
C20_Witness ==
    /\ check.state = "finished"
    /\ check.available = {"vscode-lm"}
    /\ check.before = "ollama"
    /\ check.after = "vscode-lm"
    /\ currentProvider = "vscode-lm"

\* The text after the last newline of s.
RECURSIVE AfterLastNewline(_)
AfterLastNewline(s) ==
    IF \A i \in 1..Len(s) : s[i] # "NL" THEN s
    ELSE AfterLastNewline(Tail(s))

\* The number of records of the body that lie, newline included, within its
\* first n bytes.
RECURSIVE Complete(_, _)
Complete(rs, n) ==
    IF rs = <<>> \/ Len(RecordText(Head(rs))) + 1 > n THEN 0
    ELSE 1 + Complete(Tail(rs), n - Len(RecordText(Head(rs))) - 1)

\* C21: the decoder of src/src/ollamaService.ts cuts its buffer at newline
\* characters: after each 'data' event the buffer is the received text after
\* the last newline, and every complete content record received (up to a
\* [DONE] line) has been given to the sink.
C21_LegacySplitsAtNewlines ==
    impl = "legacy" =>
        LET complete == SubSeq(records, 1, Complete(records, pos))
        IN  /\ buffer = AfterLastNewline(SubSeq(stream, 1, pos))
            /\ (\A j \in 1..Len(complete) : complete[j] # "done") =>
                  Len(sink) = Cardinality({j \in 1..Len(complete) :
                                              complete[j] \in {"stopc", "escaped"}})

\* The sink has been called at most once per content record received in
\* full, newline included (the provider's stream-error text aside).
NothingEarly ==
    Len(SelectSeq(sink, LAMBDA f : f # <<"StreamError">>)) <=
        Cardinality({j \in 1..Complete(records, pos) :
                        records[j] \in {"delta", "message", "stopc"}})

Emits(k) ==
    CASE k = "plain"   -> <<(<<"b">>)>>
      [] k = "message" -> <<(<<"a">>)>>
      [] k = "both"    -> <<(<<"a">>)>>
      [] OTHER         -> <<>>

RECURSIVE EmitsAll(_)
EmitsAll(rs) == IF rs = <<>> THEN <<>> ELSE Emits(Head(rs)) \o EmitsAll(Tail(rs))

\* C23: whichever shapes the records of a body have, a record with delta
\* content emits it, a record with only message content emits that, a record
\* with both emits the delta content alone, and no record gives the sink more
\* than one fragment: the sink holds the fragments of the records received in
\* full, one each, in order.
C23_BothShapes ==
    ~cancelled =>
        SelectSeq(sink, LAMBDA f : f # <<"StreamError">>) =
            EmitsAll(SubSeq(records, 1, Complete(records, pos)))

\* A record carrying both contents, then a delta record.
C23_Witness ==
    /\ records = <<"both", "plain">>
    /\ transport = "ended"
    /\ sink = <<(<<"a">>), (<<"b">>)>>
    /\ fullResponse = <<"a", "b">>

\* C24: the messages sent are the non-system messages in their order, and the
\* combined system prompt is in front of the first user message of the
\* conversation and nowhere else, so a conversation with a user message
\* carries the prompt exactly once.
C24_PromptOnFirstUserMessage ==
    sent.called =>
        LET ns     == nonSystemMessages(messages)
            users  == {k \in 1..Len(ns) : ns[k].role = "user"}
            prompt == systemPrompt(messages, options)
        IN  /\ Len(sent.messages) = Len(ns)
            /\ \A k \in 1..Len(ns) :
                  /\ sent.messages[k].role = ns[k].role
                  /\ sent.messages[k].content =
                        IF k \in users /\ \A j \in users : k <= j
                        THEN prompt \o ns[k].content
                        ELSE ns[k].content

\* C25: a step of the switch command changes the current provider only when
\* the picked provider is one its own probe reported available (and is not
\* the current one), and then to the picked provider; picking an unavailable
\* provider, picking the current provider or dismissing the picker leaves the
\* current provider as it is.
C25_SwitchOnlyToProbedAvailable ==
    [][switch' # switch =>
          IF /\ switch.state = "picking"
             /\ switch'.selected \in switch.available
             /\ switch'.selected # currentProvider
          THEN currentProvider' = switch'.selected
          ELSE currentProvider' = currentProvider]_allVars

\* The command has switched from Ollama to the VS Code provider, which its
\* probe found available.
C25_Witness ==
    /\ switch.state = "refreshing"
    /\ switch.selected = "vscode-lm"
    /\ switch.available = {"vscode-lm"}
    /\ currentProvider = "vscode-lm"
    /\ lastSet = "vscode-lm"

C27_NoFragmentAfterCancel ==
    /\ [][(impl = "vscode-lm" /\ cancelled) => sink' = sink]_allVars
    /\ []((impl = "vscode-lm" /\ phase = "returned") => promise = "resolved")

\* The errors chat() throws itself when the model is not among the supported
\* ones or no chat model is available for it.
NoSuchModel == {ModelUnknown(model), ModelUnavailable(model)}

\* C30: when VSCodeLanguageModelProvider.chat is called with a model that
\* matches no supported model, or for which no chat model is available, the
\* error is raised before sendRequest is reached, the sink receives exactly one
\* fragment, an inline error text, and the call resolves.
C30_UnknownModel ==
    /\ [][(impl = "vscode-lm" /\ phase = "finding" /\ phase' # phase
              /\ model \notin SUPPORTED_MODELS) =>
             caught' = ModelUnknown(model)]_allVars
    /\ [][(impl = "vscode-lm" /\ caught' # caught /\ caught' \in NoSuchModel) =>
             /\ phase \in {"finding", "selecting"}
             /\ phase' = "returned"
             /\ sink = <<>>
             /\ sink' = <<(<<"[Error: ">> \o toErrorString(caught') \o <<"]">>)>>
             /\ promise' = "resolved"]_allVars
    /\ []((impl = "vscode-lm" /\ phase = "returned" /\ caught \in NoSuchModel) =>
             /\ Len(sink) = 1
             /\ pos = 0
             /\ promise = "resolved"
             /\ value = Undefined)

\* chat() has returned after finding no chat model for a supported model name.
C30_Witness ==
    /\ impl = "vscode-lm"
    /\ phase = "returned"
    /\ model = "gpt-4o"
    /\ caught = ModelUnavailable("gpt-4o")
    /\ sink = <<(<<"[Error: ", "Error", ": ", "Model ", "gpt-4o", " not available", "]">>)>>
    /\ promise = "resolved"

\* C29: once the requests made so far are finished, whether they succeeded or
\* failed, chatHistory alternates user and assistant messages: every user
\* message is followed at once by the assistant reply of the same request.
C29_HistoryAlternates ==
    (inbox = <<>> /\ \A r \in DOMAIN requests : requests[r] = "done") =>
        /\ Len(chatHistory) % 2 = 0
        /\ \A k \in DOMAIN chatHistory :
              IF k % 2 = 1
              THEN chatHistory[k].role = "user"
              ELSE /\ chatHistory[k].role = "assistant"
                   /\ chatHistory[k].request = chatHistory[k - 1].request

====
